---- MODULE Spec2Model ----
(***************************************************************************)
(* Model of RealzHub's override/ACL core:                                  *)
(*   - core/views/decorators.py : check_permissions, permssions_required   *)
(*   - core/loading.py          : get_class(es), default_class_loader      *)
(*   - core/application.py      : AppConfigMixin (construction, URL        *)
(*                                post-processing, urls)                   *)
(*   - config.py, apps/users/apps.py : the two concrete containers         *)
(*                                                                         *)
(* Python values are modelled as follows.  A dotted path ("users.forms")   *)
(* or a colon-separated URL name ("users:detail") is the sequence of its   *)
(* segments, so that split/join are sequence operations.  A call either    *)
(* returns or raises: Ret(v) / Raise(e).                                   *)
(***************************************************************************)
EXTENDS Naturals, Sequences, FiniteSets, TLC

VARIABLES
    decorated,    \* the endpoint produced by permssions_required(...)
    principal,    \* request.user of the last request
    evaluated,    \* local `outcome` of _check_permissions (or what it raised)
    response,     \* how the last request to the decorated endpoint ended
    registry,     \* django.apps.apps : app label -> app config
    sys_modules,  \* what __import__ finds for each module path
    call,         \* the last loader call (function and arguments)
    result,       \* what that call returned or raised
    log,          \* imports and registry lookups made by that call, in order
    container,    \* the app configuration container (or its failed construction)
    appcall       \* the last call on the container: its arguments and its return

guardVars  == <<decorated, principal, evaluated, response>>
loaderVars == <<registry, sys_modules, call, result, log>>
appVars    == <<container, appcall>>
vars       == <<decorated, principal, evaluated, response,
                registry, sys_modules, call, result, log,
                container, appcall>>

----------------------------------------------------------------------------
(* Generic helpers *)

Ret(v)   == [kind |-> "return", value |-> v]
Raise(e) == [kind |-> "raise", exc |-> e]
Idle     == [kind |-> "idle"]

Range(s) == {s[i] : i \in 1..Len(s)}

\* all sequences over S of length at most n
SeqUpTo(S, n) == UNION {[1..k -> S] : k \in 0..n}

\* Python exception classes and their direct base.  ModuleNotFoundError is
\* not imported from realzhub.core.exceptions (only AppNotFoundError and
\* ClassNotFoundError are), so the name is the builtin, a subclass of
\* ImportError.
ExcBase(e) ==
    CASE e = "ModuleNotFoundError" -> "ImportError"
      [] e = "ImportError"         -> "Exception"
      [] e = "Exception"           -> "BaseException"
      [] OTHER                     -> "Exception"

RECURSIVE IsSubclass(_, _)
IsSubclass(e, cls) ==
    IF e = cls THEN TRUE
    ELSE IF e = "BaseException" THEN FALSE
    ELSE IsSubclass(ExcBase(e), cls)

----------------------------------------------------------------------------
(* core/views/decorators.py *)

\* bounds of the permission specs that are enumerated
MaxPerms  == 2      \* tokens in one permission list
MaxGroups == 2      \* lists in a tuple of lists

\* tokens as the docstring of check_permissions admits them: a permission
\* name (app_label.codename) or an attribute of the user
Tokens == {"is_staff", "is_active", "is_anonymous", "catalogue.dashboard_access"}

\* `"." in perm` for a token (substring test on the string)
HasDot(perm) == perm \in {"catalogue.dashboard_access"}

PermLists == SeqUpTo(Tokens, MaxPerms)

\* A permission spec: None, a list of tokens, or a tuple of lists.
NoPermissions   == [type |-> "NoneType", items |-> <<>>]
PyListSpec(l)   == [type |-> "list", items |-> l]
PyTupleSpec(ls) == [type |-> "tuple", items |-> ls]

PermissionSpecs ==
    {NoPermissions}
    \cup {PyListSpec(l) : l \in PermLists}
    \cup {PyTupleSpec(ls) : ls \in SeqUpTo(PermLists, MaxGroups)}

\* Elements of the lists built inside _check_one_permission_list: a str or
\* a list object.
PyStr(s)  == [t |-> "str", v |-> <<s>>]
PyList(l) == [t |-> "list", v |-> l]
PyIn(x, xs) == \E i \in 1..Len(xs) : xs[i].t = x.t /\ xs[i].v = x.v

\* The principal.  Attributes are properties/fields (Django's user model),
\* read with getattr; has_perms is its permission-checking capability.
Users ==
    [is_authenticated : BOOLEAN, is_staff : BOOLEAN, is_active : BOOLEAN,
     perms : SUBSET {"catalogue.dashboard_access"}]

UserAttr(user, name) ==
    CASE name = "is_staff"         -> user.is_staff
      [] name = "is_active"        -> user.is_active
      [] name = "is_authenticated" -> user.is_authenticated
      [] name = "is_anonymous"     -> ~user.is_authenticated

\* getattr(user, name): the attribute name must be a str
getattr(user, name) ==
    IF name.t # "str" THEN Raise("TypeError")
    ELSE IF name.v[1] \in {"is_staff", "is_active", "is_authenticated", "is_anonymous"}
         THEN Ret(UserAttr(user, name.v[1]))
         ELSE Raise("AttributeError")

\* user.has_perms(perm_list) = all(has_perm(p) for p in perm_list); a
\* permission that is not a str cannot be looked up
has_perms(user, perm_list) ==
    IF \A i \in 1..Len(perm_list) : perm_list[i].t = "str"
    THEN Ret(\A i \in 1..Len(perm_list) : perm_list[i].v[1] \in user.perms)
    ELSE Raise("TypeError")

\* [perms for perm in perms if "." in perm]: one copy of the whole list
\* `perms` per dotted token
regular_permssions(perms) ==
    [i \in 1..Cardinality({j \in 1..Len(perms) : HasDot(perms[j])}) |-> PyList(perms)]

\* [perms for perm in perms if "." not in perms]: the test is membership of
\* the string "." in the list, and the element is the whole list
conditions_listcomp(perms) ==
    IF "." \notin Range(perms)
    THEN [i \in 1..Len(perms) |-> PyList(perms)]
    ELSE <<>>

\* lines 32-37: append "is_active" unless is_anonymous/is_active is an
\* element of conditions
conditions(perms) ==
    LET c == conditions_listcomp(perms) IN
    IF Len(c) > 0 /\ ~PyIn(PyStr("is_anonymous"), c) /\ ~PyIn(PyStr("is_active"), c)
    THEN Append(c, PyStr("is_active"))
    ELSE c

\* [getattr(user, perms) for perm in conditions]: every element reads the
\* attribute named by the list `perms`; the first one raises
attributes(user, perms) ==
    LET c == conditions(perms)
        a == getattr(user, PyList(perms))
    IN  IF Len(c) = 0 THEN Ret(<<>>)
        ELSE IF a.kind = "raise" THEN a
        ELSE Ret([i \in 1..Len(c) |-> a.value])

_check_one_permission_list(user, perms) ==
    LET attrs == attributes(user, perms) IN
    IF attrs.kind = "raise" THEN attrs
    ELSE LET passes_condtions == \A i \in 1..Len(attrs.value) : attrs.value[i]
         IN  IF ~passes_condtions THEN Ret(FALSE)
             ELSE has_perms(user, regular_permssions(perms))

\* any(_check_one_permission_list(perm) for perm in permissions), left to
\* right: stops at the first true group, raises where a group raises
RECURSIVE any_group(_, _, _)
any_group(user, groups, i) ==
    IF i > Len(groups) THEN Ret(FALSE)
    ELSE LET r == _check_one_permission_list(user, groups[i]) IN
         IF r.kind = "raise" THEN r
         ELSE IF r.value THEN Ret(TRUE)
         ELSE any_group(user, groups, i + 1)

check_permissions(user, permissions) ==
    IF Len(permissions.items) = 0 THEN Ret(TRUE)
    ELSE IF permissions.type = "list"
         THEN _check_one_permission_list(user, permissions.items)
         ELSE any_group(user, permissions.items, 1)

\* settings.LOGIN_URL and an explicit login_url (None when not given)
LOGIN_URL == "settings.LOGIN_URL"
LoginUrls == {"None", "/dashboard/login/"}

\* permssions_required: lines 68-69, the resolved login_url
resolve_login_url(login_url) == IF login_url = "None" THEN LOGIN_URL ELSE login_url

\* _check_permissions(user), lines 71-76
_check_permissions(user, permissions) ==
    LET outcome == check_permissions(user, permissions) IN
    IF outcome.kind = "raise" THEN outcome
    ELSE IF ~outcome.value /\ user.is_authenticated THEN Raise("PermissionDenied")
    ELSE outcome

\* django's user_passes_test(test_func, login_url) around a view: the view
\* runs when the test is true, otherwise the request is redirected to
\* login_url; what the test raises propagates
user_passes_test(test, login_url) ==
    IF test.kind = "raise" THEN test
    ELSE IF test.value THEN Ret([to |-> "view", url |-> "None"])
    ELSE Ret([to |-> "redirect", url |-> login_url])

NotDecorated == [kind |-> "none"]

GuardInit ==
    /\ decorated = NotDecorated
    /\ principal = Idle
    /\ evaluated = Idle
    /\ response = Idle

\* permssions_required(permissions, login_url) applied to a view, once, when
\* the URL patterns are built
permssions_required(permissions, login_url) ==
    /\ decorated = NotDecorated
    /\ decorated' = [kind |-> "guard", permissions |-> permissions,
                     login_url |-> resolve_login_url(login_url)]
    /\ principal' = Idle
    /\ evaluated' = Idle
    /\ response' = Idle
    /\ UNCHANGED <<loaderVars, appVars>>

\* a request by `user` to the decorated endpoint
request(user) ==
    /\ decorated.kind = "guard"
    /\ principal' = user
    /\ evaluated' = check_permissions(user, decorated.permissions)
    /\ response' = user_passes_test(_check_permissions(user, decorated.permissions),
                                    decorated.login_url)
    /\ UNCHANGED <<decorated, loaderVars, appVars>>

Decorate == \E p \in PermissionSpecs, l \in LoginUrls : permssions_required(p, l)
Request  == \E u \in Users : request(u)

----------------------------------------------------------------------------
(* core/loading.py *)

MaxClassnames == 2   \* class names asked for in one call

ClassNames == {"UserChangeForm", "UserCreationForm"}

\* module labels: "forms" has no separator
ModuleLabels == {<<"forms">>, <<"users", "forms">>, <<"users", "forms", "widgets">>}

\* module_prefix arguments; <<>> stands for "not passed" (the default applies)
NotPassed == <<>>
PrefixArgs == {NotPassed, <<"realzhub", "apps">>, <<"myproject">>}

\* default module_prefix of get_class ("realzhub.apps") and of get_classes
\* ("relazhub.apps")
get_class_default_prefix   == <<"realzhub", "apps">>
get_classes_default_prefix == <<"relazhub", "apps">>

\* App registry entry for an app label: not installed, or an app config
\* with its package name; is_app_config is the isinstance(.., AppConfig) test
RegistryEntries ==
    {[installed |-> FALSE, name |-> <<>>, is_app_config |-> FALSE],
     [installed |-> TRUE, name |-> <<"realzhub", "apps", "users">>, is_app_config |-> TRUE],
     [installed |-> TRUE, name |-> <<"myproject", "users">>, is_app_config |-> TRUE],
     [installed |-> TRUE, name |-> <<"myproject", "users">>, is_app_config |-> FALSE]}

\* What importing a module path does: the module does not exist; it exists
\* and exposes some names; or it exists and its own code raises (an
\* ImportError from an import inside it, or another error such as NameError)
ModuleStates ==
    {[status |-> "absent", exposes |-> {}, exc |-> "ModuleNotFoundError"]}
    \cup {[status |-> "ok", exposes |-> e, exc |-> "None"] : e \in SUBSET ClassNames}
    \cup {[status |-> "raises", exposes |-> {}, exc |-> x] : x \in {"ImportError", "NameError"}}

\* an exception of the loader: its class, the number of traceback frames
\* seen by the handler that may catch it, and where it was raised
Exc(type, frames, origin) == [type |-> type, frames |-> frames, origin |-> origin]

NoModule == [present |-> FALSE, name |-> <<>>, exposes |-> {}]
Module(path, exposes) == [present |-> TRUE, name |-> path, exposes |-> exposes]

\* the class object bound to `name` in module `path`
Symbol(path, name) == [module |-> path, name |-> name]

\* __import__(module_label, fromlist=classnames).  A missing module fails
\* in the import statement itself (one traceback frame, the import
\* machinery's own frames being removed); an error raised by the module's
\* own code has the module's frame below it.
import(mods, path) ==
    LET m == IF path \in DOMAIN mods
             THEN mods[path]
             ELSE [status |-> "absent", exposes |-> {}, exc |-> "ModuleNotFoundError"]
    IN  CASE m.status = "ok"     -> Ret(Module(path, m.exposes))
          [] m.status = "absent" -> Raise(Exc("ModuleNotFoundError", 1, path))
          [] OTHER               -> Raise(Exc(m.exc, 2, path))

\* line 137: `if len(frames) > 1: raise`
originates_in_module_mutant(frames) == frames > 2
originates_in_module(frames) == frames > 1

\* _import_module: None when the module does not exist, the module when it
\* imports, and the error re-raised (or never caught) otherwise
_import_module(mods, path) ==
    LET r == import(mods, path) IN
    IF r.kind = "raise" /\ IsSubclass(r.exc.type, "ImportError")
    THEN IF originates_in_module(r.exc.frames) THEN r ELSE Ret(NoModule)
    ELSE r

\* _find_registered_app_name
_find_registered_app_name(reg, module_label) ==
    LET app_label == module_label[1]
        app_config == IF app_label \in DOMAIN reg THEN reg[app_label]
                      ELSE [installed |-> FALSE, name |-> <<>>, is_app_config |-> FALSE]
    IN  IF ~app_config.installed
        THEN Raise(Exc("AppNotFoundError", 1, <<"_find_registered_app_name">>))
        ELSE IF ~app_config.is_app_config
        THEN Raise(Exc("AppNotFoundError", 1, <<"_find_registered_app_name">>))
        ELSE Ret(app_config.name)

\* hasattr(module, classname); None exposes no class
hasattr(module, classname) == module.present /\ classname \in module.exposes

\* the inner loop of _pluck_classes: first module that has the class
RECURSIVE first_with(_, _, _)
first_with(modules, classname, i) ==
    IF i > Len(modules) THEN 0
    ELSE IF hasattr(modules[i], classname) THEN i
    ELSE first_with(modules, classname, i + 1)

\* _pluck_classes(modules, classnames): the classes in the order asked, or
\* ClassNotFoundError at the first class no module has
RECURSIVE pluck_from(_, _, _, _)
pluck_from(modules, classnames, k, klasses) ==
    IF k > Len(classnames) THEN Ret(klasses)
    ELSE LET i == first_with(modules, classnames[k], 1) IN
         IF i = 0
         THEN Raise(Exc("ClassNotFoundError", 1, <<"_pluck_classes">>))
         ELSE pluck_from(modules, classnames, k + 1,
                         Append(klasses, Symbol(modules[i].name, classnames[k])))

\* line 112: the order in which the modules are searched
search_order_mutant(local_module, realzhub_module) == <<realzhub_module, local_module>>
search_order(local_module, realzhub_module) == <<local_module, realzhub_module>>

_pluck_classes(modules, classnames) == pluck_from(modules, classnames, 1, <<>>)

\* line 80: `"." not in module_lable`
no_separator_mutant(module_lable) == Len(module_lable) < 1
no_separator(module_lable) == Len(module_lable) < 2

\* "%s.%s" % (module_prefix, module_lable)
realzhub_module_lable(module_prefix, module_lable) == module_prefix \o module_lable

\* app_name.startswith("%s." % module_prefix)
startswith_prefix(app_name, module_prefix) ==
    /\ Len(app_name) > Len(module_prefix)
    /\ SubSeq(app_name, 1, Len(module_prefix)) = module_prefix

\* ".".join(app_name.split(".") + module_lable.split(".")[1:])
local_module_label(app_name, module_lable) ==
    app_name \o SubSeq(module_lable, 2, Len(module_lable))

ImportEvent(path) == [op |-> "import", arg |-> path]
LookupEvent(module_lable) == [op |-> "get_app_config", arg |-> <<module_lable[1]>>]

\* default_class_loader(module_lable, classnames, module_prefix) in the
\* environment (reg, mods): what it returns or raises, and the imports and
\* registry lookups it made
default_class_loader(reg, mods, module_lable, classnames, module_prefix) ==
    IF no_separator(module_lable)
    THEN [outcome |-> Raise(Exc("ValueError", 1, <<"default_class_loader">>)),
          log |-> <<>>]
    ELSE
    LET base_label == realzhub_module_lable(module_prefix, module_lable)
        realzhub_module == _import_module(mods, base_label)
        log1 == <<ImportEvent(base_label)>>
    IN  IF realzhub_module.kind = "raise"
        THEN [outcome |-> realzhub_module, log |-> log1]
        ELSE
    LET app_name == _find_registered_app_name(reg, module_lable)
        log2 == Append(log1, LookupEvent(module_lable))
    IN  IF app_name.kind = "raise"
        THEN [outcome |-> app_name, log |-> log2]
        ELSE
    LET skip == startswith_prefix(app_name.value, module_prefix)
        local_label == local_module_label(app_name.value, module_lable)
        local_module == IF skip THEN Ret(NoModule) ELSE _import_module(mods, local_label)
        log3 == IF skip THEN log2 ELSE Append(log2, ImportEvent(local_label))
    IN  IF local_module.kind = "raise"
        THEN [outcome |-> local_module, log |-> log3]
        ELSE IF ~realzhub_module.value.present /\ ~local_module.value.present
        THEN [outcome |-> Raise(Exc("ModuleNotFoundError", 1, <<"default_class_loader">>)),
              log |-> log3]
        ELSE [outcome |-> _pluck_classes(search_order(local_module.value,
                                                      realzhub_module.value),
                                         classnames),
              log |-> log3]

\* get_classes: the configured loader (settings.DYNAMIC_CLASS_LOADER, here
\* default_class_loader) with the given or the default prefix
get_classes(reg, mods, module_label, classnames, module_prefix) ==
    default_class_loader(reg, mods, module_label, classnames,
        IF module_prefix = NotPassed THEN get_classes_default_prefix ELSE module_prefix)

\* get_class: get_classes(module_label, [classname], module_prefix)[0]
get_class(reg, mods, module_label, classname, module_prefix) ==
    LET r == default_class_loader(reg, mods, module_label, <<classname>>,
                 IF module_prefix = NotPassed THEN get_class_default_prefix
                 ELSE module_prefix)
    IN  [outcome |-> IF r.outcome.kind = "return" THEN Ret(r.outcome.value[1])
                     ELSE r.outcome,
         log |-> r.log]

\* The module paths a call can try to import: the base candidate and, for an
\* installed app outside the prefix, the local candidate
Candidates(reg_entry, module_label, prefix) ==
    {prefix \o module_label}
    \cup (IF reg_entry.installed /\ Len(module_label) > 0
          THEN {local_module_label(reg_entry.name, module_label)} ELSE {})

EffectivePrefix(fn, module_prefix) ==
    IF module_prefix # NotPassed THEN module_prefix
    ELSE IF fn = "get_class" THEN get_class_default_prefix
    ELSE get_classes_default_prefix

LoaderInit ==
    /\ registry = [l \in {"users"} |-> [installed |-> FALSE, name |-> <<>>,
                                         is_app_config |-> FALSE]]
    /\ sys_modules = <<>>
    /\ call = Idle
    /\ result = Idle
    /\ log = <<>>

\* get_classes(module_label, classnames[, module_prefix]) in some environment
\* (installed apps and importable modules); one call per behaviour, the
\* loader keeps no state between calls
get_classes_call(reg_entry, mods, module_label, classnames, module_prefix) ==
    LET reg == [l \in {"users"} |-> reg_entry]
        r == get_classes(reg, mods, module_label, classnames, module_prefix)
    IN  /\ call = Idle
        /\ registry' = reg
        /\ sys_modules' = mods
        /\ call' = [kind |-> "get_classes", module_label |-> module_label,
                    classnames |-> classnames, module_prefix |-> module_prefix]
        /\ result' = r.outcome
        /\ log' = r.log
        /\ UNCHANGED <<guardVars, appVars>>

\* get_class(module_label, classname[, module_prefix]) in some environment
get_class_call(reg_entry, mods, module_label, classname, module_prefix) ==
    LET reg == [l \in {"users"} |-> reg_entry]
        r == get_class(reg, mods, module_label, classname, module_prefix)
    IN  /\ call = Idle
        /\ registry' = reg
        /\ sys_modules' = mods
        /\ call' = [kind |-> "get_class", module_label |-> module_label,
                    classnames |-> <<classname>>, module_prefix |-> module_prefix]
        /\ result' = r.outcome
        /\ log' = r.log
        /\ UNCHANGED <<guardVars, appVars>>

GetClasses ==
    \E e \in RegistryEntries, l \in ModuleLabels, p \in PrefixArgs,
       cs \in SeqUpTo(ClassNames, MaxClassnames) :
        \E mods \in [Candidates(e, l, EffectivePrefix("get_classes", p)) -> ModuleStates] :
            get_classes_call(e, mods, l, cs, p)

GetClass ==
    \E e \in RegistryEntries, l \in ModuleLabels, p \in PrefixArgs, c \in ClassNames :
        \E mods \in [Candidates(e, l, EffectivePrefix("get_class", p)) -> ModuleStates] :
            get_class_call(e, mods, l, c, p)

----------------------------------------------------------------------------
(* core/application.py, config.py, apps/users/apps.py *)

MaxKwargs == 2   \* free-form keyword arguments of one construction
MaxNodes  == 3   \* nodes (leaves and namespace nodes) of one pattern tree

\* Python literals used as attribute values, and what they denote
PermissionSpecOf(lit) ==
    CASE lit = "None"        -> NoPermissions
      [] lit = "[]"          -> PyListSpec(<<>>)
      [] lit = "[is_staff]"  -> PyListSpec(<<"is_staff">>)
      [] lit = "([is_staff], [catalogue.dashboard_access])"
            -> PyTupleSpec(<<(<<"is_staff">>), (<<"catalogue.dashboard_access">>)>>)

\* a permissions_map: view name -> permission spec literal
PermissionsMapOf(lit) ==
    CASE lit = "{}" -> <<>>
      [] lit = "{detail: [is_staff]}" -> [n \in {"detail"} |-> "[is_staff]"]
      [] lit = "{home: [is_staff], detail: None}"
            -> [n \in {"home", "detail"} |-> IF n = "home" THEN "[is_staff]" ELSE "None"]

\* line 36-45
app_config_attrs ==
    {"name", "module", "apps", "label", "verbose_name", "path", "models_module", "models"}

\* attributes of the container that are properties without a setter
\* (`urls`, lines 128-131)
ReadOnlyProperties == {"urls"}

\* keyword arguments that are enumerated: (key, value) pairs
KwargItems ==
    {[key |-> "label", value |-> "x"],
     [key |-> "models", value |-> "{}"],
     [key |-> "login_url", value |-> "/users/login/"],
     [key |-> "urls", value |-> "[]"],
     [key |-> "permissions_map", value |-> "{detail: [is_staff]}"],
     [key |-> "permissions_map", value |-> "{home: [is_staff], detail: None}"],
     [key |-> "default_permissions", value |-> "[is_staff]"],
     [key |-> "default_permissions", value |-> "[]"]}

\* **kwargs: a dict in call order, no key twice
KwargDicts ==
    {kw \in SeqUpTo(KwargItems, MaxKwargs) :
        \A i, j \in 1..Len(kw) : i # j => kw[i].key # kw[j].key}

Keys(kwargs) == {kwargs[i].key : i \in 1..Len(kwargs)}

Classes == {"RealzHub", "UsersConfig"}
Namespaces == {"None", "users"}

\* class attributes: AppConfigMixin lines 16-28, UsersConfig lines 11-13,
\* RealzHub line 9
ClassAttrs(cls) ==
    LET mixin == [a \in {"namespace", "login_url", "permissions_map", "default_permissions"}
                    |-> CASE a = "permissions_map" -> "{}" [] OTHER -> "None"]
    IN  IF cls = "UsersConfig"
        THEN [a \in DOMAIN mixin \cup {"label", "name", "verbose_name"} |->
                 CASE a = "label" -> "users"
                   [] a = "name" -> "realzhub.apps.users"
                   [] a = "verbose_name" -> "Users"
                   [] OTHER -> mixin[a]]
        ELSE [a \in DOMAIN mixin \cup {"name"} |->
                 CASE a = "name" -> "realzhub" [] OTHER -> mixin[a]]

Put(d, k, v) == [x \in DOMAIN d \cup {k} |-> IF x = k THEN v ELSE d[x]]

EmptyDict == [x \in {} |-> "None"]

\* django's AppConfig.__init__(app_name, app_module): binds the attributes
\* listed in app_config_attrs on the instance
base_init(cls, app_name) ==
    [a \in app_config_attrs |->
        CASE a = "name"   -> app_name
          [] a = "module" -> "<module>"
          [] a \in {"label", "verbose_name"} /\ a \in DOMAIN ClassAttrs(cls) -> ClassAttrs(cls)[a]
          [] a = "label"  -> app_name
          [] a \in {"apps", "models_module", "models"} -> "None"
          [] OTHER -> "<AppConfig>"]

\* instance attribute lookup: the instance first, then the class
Attr(obj, a) ==
    IF a \in DOMAIN obj.dict THEN obj.dict[a] ELSE ClassAttrs(obj.cls)[a]

\* lines 62-63: setattr for each keyword in order; setattr on a property
\* without a setter raises AttributeError and ends the loop
RECURSIVE set_kwargs(_, _, _, _)
set_kwargs(dict, steps, kwargs, i) ==
    IF i > Len(kwargs) THEN [ok |-> TRUE, dict |-> dict, steps |-> steps]
    ELSE IF kwargs[i].key \in ReadOnlyProperties
    THEN [ok |-> FALSE, dict |-> dict, steps |-> steps]
    ELSE set_kwargs(Put(dict, kwargs[i].key, kwargs[i].value),
                    Append(steps, "setattr " \o kwargs[i].key), kwargs, i + 1)

\* line 49: set(kwargs).intersection(app_config_attrs)
clashing_kwargs_mutant(kwargs) == Keys(kwargs) \cap (app_config_attrs \ {"models"})
clashing_kwargs(kwargs) == Keys(kwargs) \cap app_config_attrs

\* AppConfigMixin.__init__(app_name, app_module, namespace, **kwargs) for
\* class cls: the object, or the exception that ended the construction
\* together with what had been done by then
init(cls, app_name, namespace, kwargs) ==
    IF clashing_kwargs(kwargs) # {}
    THEN [state |-> "raised", cls |-> cls, exc |-> "ImproperlyConfigured",
          clashing |-> clashing_kwargs(kwargs), dict |-> EmptyDict, steps |-> <<>>]
    ELSE
    LET d0 == base_init(cls, app_name)
        s0 == <<"super().__init__">>
        d1 == IF namespace # "None" THEN Put(d0, "namespace", namespace) ELSE d0
        s1 == IF namespace # "None" THEN Append(s0, "setattr namespace") ELSE s0
        r  == set_kwargs(d1, s1, kwargs, 1)
    IN  IF r.ok
        THEN [state |-> "constructed", cls |-> cls, exc |-> "None",
              clashing |-> {}, dict |-> r.dict, steps |-> r.steps]
        ELSE [state |-> "raised", cls |-> cls, exc |-> "AttributeError",
              clashing |-> {}, dict |-> r.dict, steps |-> r.steps]

\* URL pattern tree.  A name is the sequence of its ":"-separated segments;
\* <<>> is None (no name).
NoName == <<>>
View(id) == [wrapped |-> FALSE, view |-> id]
Guarded(permissions, login_url, callback) ==
    [wrapped |-> TRUE, permissions |-> permissions, login_url |-> login_url,
     inner |-> callback]
NoCallback == View("None")

URLPattern(name, callback) ==
    [type |-> "URLPattern", name |-> name, callback |-> callback, url_patterns |-> <<>>]
URLResolver(url_patterns) ==
    [type |-> "URLResolver", name |-> NoName, callback |-> NoCallback,
     url_patterns |-> url_patterns]

UrlNames == {NoName, <<"detail">>, <<"users", "detail">>, <<"dashboard", "users", "detail">>}
Leaves == {URLPattern(n, View("view")) : n \in UrlNames}

RECURSIVE ForestsOfSize(_), TreesOfSize(_)
TreesOfSize(n) ==
    IF n = 1 THEN Leaves \cup {URLResolver(<<>>)}
    ELSE {URLResolver(f) : f \in ForestsOfSize(n - 1)}
ForestsOfSize(n) ==
    IF n = 0 THEN {<<>>}
    ELSE UNION {{<<t>> \o f : t \in TreesOfSize(k), f \in ForestsOfSize(n - k)} : k \in 1..n}

\* the pattern lists that are enumerated: every tree of at most MaxNodes nodes
PatternLists == UNION {ForestsOfSize(n) : n \in 0..MaxNodes}

\* lines 104-107: the view name of a URL name
view_name_mutant(url) == url
view_name(url) == IF url # NoName /\ Len(url) > 1 THEN <<url[2]>> ELSE url

\* dict.get(view_name, default) on the permissions_map (keys are str)
map_get(map, key, default) ==
    IF Len(key) = 1 /\ key[1] \in DOMAIN map THEN map[key[1]] ELSE default

\* get_permissions(url), lines 92-109
get_permissions(self, url) ==
    map_get(PermissionsMapOf(Attr(self, "permissions_map")), view_name(url),
            Attr(self, "default_permissions"))

\* `if permissions:` -- None, [] and () are falsy
Truthy(lit) == Len(PermissionSpecOf(lit).items) > 0

\* get_url_decorator(pattern) applied to the callback, lines 124-126 and 87-88
decorate(self, pattern) ==
    LET permissions == get_permissions(self, pattern.name) IN
    IF Truthy(permissions)
    THEN [pattern EXCEPT !.callback =
             Guarded(permissions, resolve_login_url(Attr(self, "login_url")), @)]
    ELSE pattern

\* post_process_urls(urlpatters), lines 79-90
RECURSIVE post_process_urls(_, _)
post_process_urls(self, urlpatters) ==
    [i \in 1..Len(urlpatters) |->
        LET pattern == urlpatters[i]
            nested  == IF pattern.type = "URLResolver"
                       THEN [pattern EXCEPT !.url_patterns = post_process_urls(self, @)]
                       ELSE pattern
        IN  IF nested.type = "URLPattern" THEN decorate(self, nested) ELSE nested]

\* apps.get_app_config("users") as django creates it: UsersConfig(name, module)
users_app == init("UsersConfig", "realzhub.apps.users", "None", <<>>)

\* UsersConfig.get_urls, apps/users/apps.py lines 23-29
UsersConfig_get_urls(self) ==
    post_process_urls(self,
        <<URLPattern(<<"redirect">>, View("user_redirect_view")),
          URLPattern(<<"update">>, View("user_update_view")),
          URLPattern(<<"detail">>, View("user_detail_view"))>>)

\* RealzHub.get_urls, config.py lines 14-27; path("users/", (patterns, label,
\* namespace)) is a namespace node over the users app's patterns
RealzHub_get_urls(self) ==
    <<URLResolver(UsersConfig_get_urls(users_app)),
      URLPattern(<<"home">>, View("pages/home.html")),
      URLPattern(<<"about">>, View("pages/about.html"))>>

get_urls(self) ==
    IF self.cls = "UsersConfig" THEN UsersConfig_get_urls(self)
    ELSE RealzHub_get_urls(self)

\* the `urls` property, lines 128-131
urls(self) ==
    [patterns |-> get_urls(self), label |-> Attr(self, "label"),
     namespace |-> Attr(self, "namespace")]

NoContainer == [state |-> "none", cls |-> "None", exc |-> "None", clashing |-> {},
                dict |-> EmptyDict, steps |-> <<>>]

AppInit ==
    /\ container = NoContainer
    /\ appcall = Idle

AppName(cls) == IF cls = "UsersConfig" THEN "realzhub.apps.users" ELSE "realzhub"

\* cls(app_name, app_module, namespace=namespace, **kwargs)
construct(cls, namespace, kwargs) ==
    /\ container.state = "none"
    /\ container' = init(cls, AppName(cls), namespace, kwargs)
    /\ appcall' = [kind |-> "__init__", kwargs |-> kwargs, namespace |-> namespace]
    /\ UNCHANGED <<guardVars, loaderVars>>

\* container.post_process_urls(urlpatters); the container is not changed by
\* it, so one call per behaviour is explored
post_process_urls_call(urlpatters) ==
    /\ container.state = "constructed"
    /\ appcall.kind = "__init__"
    /\ appcall' = [kind |-> "post_process_urls", arg |-> urlpatters,
                   ret |-> post_process_urls(container, urlpatters)]
    /\ UNCHANGED <<container, guardVars, loaderVars>>

\* container.urls
urls_read ==
    /\ container.state = "constructed"
    /\ appcall.kind = "__init__"
    /\ appcall' = [kind |-> "urls", ret |-> urls(container)]
    /\ UNCHANGED <<container, guardVars, loaderVars>>

Construct   == \E c \in Classes, ns \in Namespaces, kw \in KwargDicts : construct(c, ns, kw)
PostProcess == \E ps \in PatternLists : post_process_urls_call(ps)
Urls        == urls_read

----------------------------------------------------------------------------
(* Specifications: one per component, over the same variables *)

Init == GuardInit /\ LoaderInit /\ AppInit

GuardNext  == Decorate \/ Request
LoaderNext == GetClasses \/ GetClass
AppNext    == Construct \/ PostProcess \/ Urls

GuardSpec  == Init /\ [][GuardNext]_vars
LoaderSpec == Init /\ [][LoaderNext]_vars
AppSpec    == Init /\ [][AppNext]_vars

Next == GuardNext \/ LoaderNext \/ AppNext
Spec == Init /\ [][Next]_vars

----------------------------------------------------------------------------
(* Claims about the access guard and the permission evaluator *)

\* a permission group as the documentation of check_permissions reads it:
\* every bare token truthy on the principal, is_active too when there are
\* bare tokens and none of them is is_anonymous or is_active, and every
\* dotted token held
GroupPasses(user, perms) ==
    LET bare   == {t \in Range(perms) : ~HasDot(t)}
        dotted == {t \in Range(perms) : HasDot(t)}
    IN  /\ \A t \in bare : UserAttr(user, t)
        /\ (bare # {} /\ "is_anonymous" \notin bare /\ "is_active" \notin bare)
              => user.is_active
        /\ dotted \subseteq user.perms

Requested == evaluated.kind # "idle"

\* C1: every request to an endpoint wrapped by permssions_required ends in
\* exactly one of three outcomes, fixed by the evaluation result and
\* is_authenticated: true -> the endpoint is invoked; false and
\* authenticated -> PermissionDenied, no redirect; false and anonymous ->
\* redirect to login_url.
C1_ThreeOutcomes ==
    Requested =>
        \/ /\ evaluated = Ret(TRUE)
           /\ response = Ret([to |-> "view", url |-> "None"])
        \/ /\ evaluated = Ret(FALSE)
           /\ principal.is_authenticated
           /\ response = Raise("PermissionDenied")
        \/ /\ evaluated = Ret(FALSE)
           /\ ~principal.is_authenticated
           /\ response = Ret([to |-> "redirect", url |-> decorated.login_url])

\* C2: for a non-empty flat list with at least one bare token,
\* check_permissions returns the boolean GroupPasses; in particular
\* ["is_staff"] is false for a non-staff active principal and for an
\* inactive staff principal.
C2_ListIsConjunction ==
    (/\ Requested
     /\ decorated.permissions.type = "list"
     /\ \E t \in Range(decorated.permissions.items) : ~HasDot(t))
        => evaluated = Ret(GroupPasses(principal, decorated.permissions.items))

\* C3: for a non-empty tuple of groups, check_permissions returns true if
\* and only if at least one group passes as an AND-group.
C3_TupleIsDisjunction ==
    (/\ Requested
     /\ decorated.permissions.type = "tuple"
     /\ Len(decorated.permissions.items) > 0)
        => evaluated = Ret(\E i \in 1..Len(decorated.permissions.items) :
                              GroupPasses(principal, decorated.permissions.items[i]))

----------------------------------------------------------------------------
(* Claims about class resolution.  They read the environment of the call   *)
(* (registry, sys_modules) and its arguments, and compare the outcome.     *)

Called      == call.kind # "idle"
CallPrefix  == EffectivePrefix(call.kind, call.module_prefix)
Separated   == Len(call.module_label) > 1
AppEntry    == registry[call.module_label[1]]
AppFound    == call.module_label[1] \in DOMAIN registry
                  /\ AppEntry.installed /\ AppEntry.is_app_config
BasePath    == CallPrefix \o call.module_label
LocalPath   == AppEntry.name \o SubSeq(call.module_label, 2, Len(call.module_label))
\* the app is installed outside the prefix, so there is a local candidate
HasLocal    == ~(Len(AppEntry.name) > Len(CallPrefix)
                   /\ SubSeq(AppEntry.name, 1, Len(CallPrefix)) = CallPrefix)
BaseState   == sys_modules[BasePath]
LocalState  == sys_modules[LocalPath]
LocalOk     == HasLocal /\ LocalState.status = "ok"
LocalBroken == HasLocal /\ LocalState.status = "raises"
BaseOk      == BaseState.status = "ok"

\* the call can be answered: the label is valid, its app is installed, no
\* candidate raises, one of them exists, and each requested name is
\* exposed by a candidate that exists
Resolvable ==
    /\ Separated /\ AppFound
    /\ BaseState.status # "raises" /\ ~LocalBroken
    /\ BaseOk \/ LocalOk
    /\ \A n \in Range(call.classnames) :
           \/ LocalOk /\ n \in LocalState.exposes
           \/ BaseOk /\ n \in BaseState.exposes

\* C4: for a valid label of an installed app whose candidates import or are
\* absent, and names that some present candidate exposes, the loader
\* returns one class per requested name, in order: the local module's when
\* the local module exists and exposes the name, else the base module's;
\* and it returns classes in no other case.
C4_LocalWins ==
    (Called /\ call.kind = "get_classes") =>
        /\ (result.kind = "return") => Resolvable
        /\ Resolvable =>
              /\ result.kind = "return"
              /\ Len(result.value) = Len(call.classnames)
              /\ \A i \in 1..Len(call.classnames) :
                    result.value[i] =
                       IF LocalOk /\ call.classnames[i] \in LocalState.exposes
                       THEN Symbol(LocalPath, call.classnames[i])
                       ELSE Symbol(BasePath, call.classnames[i])

\* both candidates expose a requested name, and one name comes from each module
C4_Witness ==
    /\ Called /\ call.kind = "get_classes" /\ Separated /\ AppFound
    /\ LocalOk /\ BaseOk
    /\ Len(call.classnames) = 2
    /\ call.classnames[1] \in LocalState.exposes \cap BaseState.exposes
    /\ call.classnames[2] \in BaseState.exposes \ LocalState.exposes
    /\ result.kind = "return"
    /\ result.value[1].module = LocalPath
    /\ result.value[2].module = BasePath

\* C7: a candidate module that exists but raises during its import makes
\* the resolution fail with that very error: the module is not treated as
\* absent, the other candidate is not used, and no ModuleNotFoundError of
\* the loader or ClassNotFoundError is reported instead.
C7_BrokenModulePropagates ==
    (Called /\ Separated) =>
        /\ BaseState.status = "raises"
              => result = Raise(Exc(BaseState.exc, 2, BasePath))
        /\ (BaseState.status # "raises" /\ AppFound /\ LocalBroken)
              => result = Raise(Exc(LocalState.exc, 2, LocalPath))
        /\ (result.kind = "raise" /\ result.exc.origin \in {BasePath, LocalPath})
              => result.exc.frames > 1

\* the base module imports, the local one raises ImportError from inside
C7_Witness ==
    /\ Called /\ Separated /\ AppFound
    /\ BaseOk /\ BaseState.exposes = ClassNames
    /\ LocalBroken /\ LocalState.exc = "ImportError"
    /\ result = Raise(Exc("ImportError", 2, LocalPath))

\* C8: when both candidates are absent the resolution fails with a
\* module-resolution error whose type is not ImportError nor a subclass of
\* it, so that `except ImportError` does not catch it.
C8_NotAnImportError ==
    (/\ Called /\ Separated /\ AppFound
     /\ BaseState.status = "absent"
     /\ HasLocal => LocalState.status = "absent")
        => /\ result.kind = "raise"
           /\ result.exc.origin = <<"default_class_loader">>
           /\ ~IsSubclass(result.exc.type, "ImportError")

\* C10: a module label without a separator is rejected with ValueError
\* before any import and before any registry lookup, whatever the rest.
C10_NoSeparatorRejected ==
    (Called /\ ~Separated)
        => /\ result = Raise(Exc("ValueError", 1, <<"default_class_loader">>))
           /\ log = <<>>

\* the label has no separator although the app is installed and the
\* modules the prefix and the app name point at import
C10_Witness ==
    /\ Called /\ ~Separated
    /\ call.kind = "get_classes" /\ Len(call.classnames) > 0
    /\ registry["users"].installed
    /\ \A path \in DOMAIN sys_modules : sys_modules[path].status = "ok"
    /\ result.kind = "raise" /\ result.exc.type = "ValueError"

----------------------------------------------------------------------------
(* Claims about the app configuration container *)

Constructing == appcall.kind = "__init__"
Given        == Keys(appcall.kwargs)
Reserved     == {"name", "module", "apps", "label", "verbose_name", "path",
                 "models_module", "models"}

\* construction with a reserved keyword fails with ImproperlyConfigured
\* naming exactly the reserved keywords given, before the base initialiser
\* ran and before any attribute was set
FailsFast ==
    (Constructing /\ Given \cap Reserved # {})
        => /\ container.state = "raised"
           /\ container.exc = "ImproperlyConfigured"
           /\ container.clashing = Given \cap Reserved
           /\ container.steps = <<>>
           /\ container.dict = EmptyDict

AllKwargsSet ==
    /\ container.state = "constructed"
    /\ \A i \in 1..Len(appcall.kwargs) :
          /\ appcall.kwargs[i].key \in DOMAIN container.dict
          /\ container.dict[appcall.kwargs[i].key] = appcall.kwargs[i].value

LookupName(url, how) ==
    IF Len(url) < 2 THEN url
    ELSE IF how = "last" THEN <<url[Len(url)]>>
    ELSE <<url[2]>>

\* the permission requirement of a leaf: the permissions_map entry of its
\* lookup name, default_permissions only when the map has no such entry
Requirement(self, url, how) ==
    LET map == PermissionsMapOf(Attr(self, "permissions_map"))
        n   == LookupName(url, how)
    IN  IF Len(n) = 1 /\ n[1] \in DOMAIN map THEN map[n[1]]
        ELSE Attr(self, "default_permissions")

NonEmpty(lit) == lit \notin {"None", "[]", "()"}

\* `after` is `before` with exactly the leaves that have a non-empty
\* requirement wrapped in the access guard, at every depth; namespace nodes
\* and the other leaves keep their callbacks
RECURSIVE Decorated(_, _, _, _)
Decorated(self, before, after, how) ==
    /\ Len(after) = Len(before)
    /\ \A i \in 1..Len(before) :
          /\ after[i].type = before[i].type
          /\ after[i].name = before[i].name
          /\ IF before[i].type = "URLResolver"
             THEN /\ after[i].callback = before[i].callback
                  /\ Decorated(self, before[i].url_patterns, after[i].url_patterns, how)
             ELSE /\ after[i].url_patterns = before[i].url_patterns
                  /\ IF NonEmpty(Requirement(self, before[i].name, how))
                     THEN /\ after[i].callback.wrapped
                          /\ after[i].callback.inner = before[i].callback
                          /\ after[i].callback.permissions
                                = Requirement(self, before[i].name, how)
                     ELSE after[i].callback = before[i].callback

\* C6 as stated: post_process_urls returns the collection with exactly the
\* leaves wrapped whose requirement, looked up by the name with any
\* namespace prefix stripped, is non-empty.
C6_AsStated ==
    appcall.kind = "post_process_urls"
        => Decorated(container, appcall.arg, appcall.ret, "last")

\* C6 amended: the requirement is looked up by the node's name or, when the
\* name contains ":", by its second ":"-separated segment ("users:detail"
\* -> "detail", "dashboard:users:detail" -> "users").
C6_WrapsLeavesWithRequirement ==
    appcall.kind = "post_process_urls"
        => Decorated(container, appcall.arg, appcall.ret, "second")

\* a namespaced leaf inside a namespace node is wrapped through the map,
\* next to an unnamed leaf that is left alone
C6_Witness ==
    /\ appcall.kind = "post_process_urls"
    /\ Attr(container, "permissions_map") = "{detail: [is_staff]}"
    /\ Attr(container, "default_permissions") = "None"
    /\ Len(appcall.arg) = 2
    /\ appcall.arg[1].type = "URLResolver"
    /\ Len(appcall.arg[1].url_patterns) = 1
    /\ appcall.arg[1].url_patterns[1].name = <<"users", "detail">>
    /\ appcall.ret[1].url_patterns[1].callback.wrapped
    /\ appcall.arg[2].name = NoName
    /\ ~appcall.ret[2].callback.wrapped

\* C5: every named leaf endpoint of the pattern list returned by `urls`
\* whose resolved permission spec (permissions_map entry, else
\* default_permissions) is non-empty has its callback wrapped in the access
\* guard, for every container class.
C5_UrlsAreGuarded ==
    appcall.kind = "urls" =>
        \A i \in 1..Len(appcall.ret.patterns) :
            LET node == appcall.ret.patterns[i] IN
            (/\ node.type = "URLPattern"
             /\ node.name # NoName
             /\ NonEmpty(Requirement(container, node.name, "second")))
                => node.callback.wrapped

----------------------------------------------------------------------------
(* Claim about get_class as a wrapper of get_classes *)

\* get_classes(module_label, [classname])[0] with get_classes' own default
\* module prefix, in the environment of the call
ViaGetClasses ==
    LET r == get_classes(registry, sys_modules, call.module_label,
                         call.classnames, NotPassed).outcome
    IN  IF r.kind = "return" THEN Ret(r.value[1]) ELSE r

\* C11: get_class(label, name), called with its default module prefix,
\* gives the same outcome (the same class or the same error) as
\* get_classes(label, [name])[0] called with its default module prefix, in
\* every configuration of installed apps and existing modules.
C11_GetClassIsGetClasses ==
    (Called /\ call.kind = "get_class" /\ call.module_prefix = NotPassed)
        => result = ViaGetClasses

====
